---------------------------- MODULE Spec2Model ----------------------------
(***************************************************************************)
(* A model of the two scanners of this repository:                         *)
(*   src/volume_reversal_strategy.py  (analyze_stock, main)                *)
(*   src/stock_scanner_go_mini.py     (calculate_indicators,               *)
(*                                     process_single_stock, main)         *)
(*                                                                         *)
(* Numbers.  The programs compute in IEEE doubles; the model computes in   *)
(* exact extended rationals: <<n, d>> with d > 0 in lowest terms is n/d,   *)
(* <<1, 0>> and <<-1, 0>> are +inf and -inf, and << >> is NaN (also        *)
(* Python's None inside a numeric column, which pandas turns into NaN).    *)
(* Comparisons with NaN are false, as in numpy.                            *)
(*                                                                         *)
(* Frames.  A bar series is a record [n, open, close, high, low, vol,      *)
(* turnover, pct] whose columns are functions on 0..n-1 (the columns       *)
(* 开盘, 收盘, 最高, 最低, 成交量, 换手率, 涨跌幅 of the CSV file).          *)
(*                                                                         *)
(* Strings are sequences of one-character strings, so that substring      *)
(* tests and the lexicographic order of formatted fields are computed.     *)
(***************************************************************************)
EXTENDS Integers, Sequences, FiniteSets, TLC

VARIABLES
    pc,               \* position of the modelled program
    df,               \* the frame read from the security's CSV file
    code,             \* stock code (file base name)
    name,             \* the name looked up for the code
    ma20_vol,         \* analyze_stock: rolling(20).mean() of the volume
    history_ledger,   \* analyze_stock: list of {p7, p14, p20, p60}
    ledger_at,        \* history variable: the index j each ledger entry was appended for
    hit_count,        \* analyze_stock
    win_rate_20d,     \* analyze_stock
    avg_ret_20d,      \* analyze_stock
    ind,              \* calculate_indicators: the indicator columns
    ret,              \* the value the per-security function returned
    alt,              \* a second frame (two-run comparison of is_strategy_hit)
    probe,            \* the index is_strategy_hit is evaluated at in the two runs
    hitA,             \* is_strategy_hit(probe) on df
    hitB,             \* is_strategy_hit(probe) on alt
    prog,             \* which main() runs: "reversal" or "scanner"
    files,            \* main: the universe, a sequence of [code, name, df]
    results,          \* main: per task "pending", "running", or the returned value
    final,            \* main: the sorted list handed to to_csv
    aborted           \* main: an exception left the worker pool

vars == <<pc, df, code, name, ma20_vol, history_ledger, ledger_at, hit_count,
          win_rate_20d, avg_ret_20d, ind, ret, alt, probe, hitA, hitB,
          prog, files, results, final, aborted>>

-----------------------------------------------------------------------------
(* Extended rational arithmetic (the doubles of numpy / pandas).           *)

NaN == << >>

\* Python's None as a function's return value, and as a cell of a numeric column.
None == [t |-> "None"]

NoneCell == <<"None">>

Abs(x) == IF x < 0 THEN -x ELSE x

Min2(a, b) == IF a <= b THEN a ELSE b

Max2(a, b) == IF a >= b THEN a ELSE b

RECURSIVE GCD(_, _)
GCD(a, b) == IF b = 0 THEN a ELSE GCD(b, a % b)

Sign(x) == IF x > 0 THEN 1 ELSE IF x < 0 THEN -1 ELSE 0

\* n/d as a double: x/0 is a signed infinity and 0/0 is NaN.
Rat(n, d) ==
    IF d = 0 THEN (IF n = 0 THEN NaN ELSE <<Sign(n), 0>>)
    ELSE LET g == GCD(Abs(n), Abs(d))
             s == Sign(d)
         IN  <<(s * n) \div g, (s * d) \div g>>

Num(k) == <<k, 1>>

IsNaN(a) == a = NaN

IsInf(a) == a # NaN /\ a[2] = 0

IsFinite(a) == a # NaN /\ a[2] # 0

Neg(a) == IF IsNaN(a) THEN NaN ELSE <<-a[1], a[2]>>

Add(a, b) ==
    IF IsNaN(a) \/ IsNaN(b) THEN NaN
    ELSE IF IsInf(a) THEN (IF IsInf(b) /\ b[1] # a[1] THEN NaN ELSE a)
    ELSE IF IsInf(b) THEN b
    ELSE Rat(a[1] * b[2] + b[1] * a[2], a[2] * b[2])

Sub(a, b) == Add(a, Neg(b))

Mul(a, b) ==
    IF IsNaN(a) \/ IsNaN(b) THEN NaN
    ELSE IF IsInf(a) \/ IsInf(b)
         THEN (IF a[1] = 0 \/ b[1] = 0 THEN NaN ELSE <<Sign(a[1]) * Sign(b[1]), 0>>)
    ELSE Rat(a[1] * b[1], a[2] * b[2])

Div(a, b) ==
    IF IsNaN(a) \/ IsNaN(b) THEN NaN
    ELSE IF IsInf(b) THEN (IF IsInf(a) THEN NaN ELSE Num(0))
    ELSE IF IsInf(a) THEN <<a[1] * (IF b[1] < 0 THEN -1 ELSE 1), 0>>
    ELSE Rat(a[1] * b[2], a[2] * b[1])

\* a > b, a >= b, a < b, a <= b on doubles: false when an operand is NaN.
Gt(a, b) ==
    /\ ~IsNaN(a)
    /\ ~IsNaN(b)
    /\ IF IsInf(a) /\ IsInf(b) THEN a[1] > b[1] ELSE a[1] * b[2] > b[1] * a[2]

Ge(a, b) ==
    /\ ~IsNaN(a)
    /\ ~IsNaN(b)
    /\ IF IsInf(a) /\ IsInf(b) THEN a[1] >= b[1] ELSE a[1] * b[2] >= b[1] * a[2]

Lt(a, b) == Gt(b, a)

Le(a, b) == Ge(b, a)

-----------------------------------------------------------------------------
(* Strings: sequences of one-character strings.                            *)

Str(s) == [t |-> "str", s |-> s]

\* A name cell that pandas read as a float (an empty cell of stock_names.csv).
FloatName == [t |-> "float"]

\* needle in hay (Python's substring test).
Contains(hay, needle) ==
    \E k \in 1..(Len(hay) - Len(needle) + 1) :
        SubSeq(hay, k, k + Len(needle) - 1) = needle

StartsWith(s, prefix) ==
    Len(s) >= Len(prefix) /\ SubSeq(s, 1, Len(prefix)) = prefix

DigitChar == <<"0", "1", "2", "3", "4", "5", "6", "7", "8", "9">>

RECURSIVE Digits(_)
Digits(q) == IF q < 10 THEN <<DigitChar[q + 1]>>
             ELSE Append(Digits(q \div 10), DigitChar[(q % 10) + 1])

RECURSIVE Pow10(_)
Pow10(k) == IF k = 0 THEN 1 ELSE 10 * Pow10(k - 1)

RECURSIVE ZeroPad(_, _)
ZeroPad(s, k) == IF Len(s) >= k THEN s ELSE ZeroPad(<<"0">> \o s, k)

\* round-half-even of the non-negative rational n/d to an integer
RoundHalfEven(n, d) ==
    LET q == n \div d
        r == n % d
    IN  IF 2 * r > d THEN q + 1
        ELSE IF 2 * r = d THEN q + (q % 2)
        ELSE q

\* f"{x*100:.<k>f}%" for a double x (k >= 1).  A tie of the exact value is
\* rounded to even; the double of a tie may lie on either side of it.
FormatPct(x, k) ==
    IF IsNaN(x) THEN <<"n", "a", "n", "%">>
    ELSE IF IsInf(x) THEN (IF x[1] < 0 THEN <<"-">> ELSE << >>) \o <<"i", "n", "f", "%">>
    ELSE LET q == RoundHalfEven(Abs(x[1]) * 100 * Pow10(k), x[2])
         IN  (IF x[1] < 0 THEN <<"-">> ELSE << >>)
             \o Digits(q \div Pow10(k)) \o <<".">>
             \o ZeroPad(Digits(q % Pow10(k)), k) \o <<"%">>

-----------------------------------------------------------------------------
(* src/volume_reversal_strategy.py: analyze_stock                          *)

MinBarsReversal == 120

ScanWindow == 500

Horizons == <<7, 14, 20, 60>>

RECURSIVE SumCol(_, _, _)
\* col[lo] + ... + col[hi]
SumCol(col, lo, hi) == IF lo > hi THEN 0 ELSE col[hi] + SumCol(col, lo, hi - 1)

\* Series.rolling(w).mean() of an integer column: NaN until the window is full.
RollingMean(col, n, w) ==
    [i \in 0..(n - 1) |->
        IF i < w - 1 THEN NaN ELSE Rat(SumCol(col, i - w + 1, i), w)]

\* mutant: the shrink test accepts one quiet bar instead of two
is_strategy_hit_or(f, m, i) ==
    IF i < 20 THEN FALSE
    ELSE LET active == \E k \in (i - 10)..(i - 1) :
                           Gt(Num(f.vol[k]), Mul(m[k], Rat(3, 2)))
             shrink == \/ Lt(Num(f.vol[i - 1]), Mul(m[i], Rat(3, 4)))
                       \/ Lt(Num(f.vol[i - 2]), Mul(m[i], Rat(3, 4)))
             reversal == /\ f.close[i] > f.high[i - 1]
                         /\ f.close[i] > f.open[i]
         IN  reversal /\ shrink /\ active

\* mutant: the reversal test compares with the next bar's high
is_strategy_hit_ahead(f, m, i) ==
    IF i < 20 THEN FALSE
    ELSE LET active == \E k \in (i - 10)..(i - 1) :
                           Gt(Num(f.vol[k]), Mul(m[k], Rat(3, 2)))
             shrink == /\ Lt(Num(f.vol[i - 1]), Mul(m[i], Rat(3, 4)))
                       /\ Lt(Num(f.vol[i - 2]), Mul(m[i], Rat(3, 4)))
             reversal == /\ f.close[i] > f.high[i - 1]
                         /\ f.close[i] > f.open[i]
                         /\ (i + 1 < f.n => f.close[i] >= f.high[i + 1])
         IN  reversal /\ shrink /\ active

\* is_strategy_hit(i), a closure over the frame f and its ma20_vol column m.
\* The three tests have no effects, so their conjunction is written with the
\* cheapest first.
is_strategy_hit(f, m, i) ==
    IF i < 20 THEN FALSE
    ELSE LET active == \E k \in (i - 10)..(i - 1) :
                           Gt(Num(f.vol[k]), Mul(m[k], Rat(3, 2)))
             shrink == /\ Lt(Num(f.vol[i - 1]), Mul(m[i], Rat(3, 4)))
                       /\ Lt(Num(f.vol[i - 2]), Mul(m[i], Rat(3, 4)))
             reversal == /\ f.close[i] > f.high[i - 1]
                         /\ f.close[i] > f.open[i]
         IN  reversal /\ shrink /\ active

\* mutant: the bound check is off by one bar
ForwardReturnShort(f, jj, days) ==
    LET target == jj + days
    IN  IF target < f.n - 1
        THEN Div(Sub(Num(f.close[target]), Num(f.close[jj])), Num(f.close[jj]))
        ELSE NoneCell

\* res[f'p{days}'] for a hit at jj
ForwardReturn(f, jj, days) ==
    LET target == jj + days
    IN  IF target < f.n
        THEN Div(Sub(Num(f.close[target]), Num(f.close[jj])), Num(f.close[jj]))
        ELSE NoneCell

LedgerRow(f, jj) ==
    [p7  |-> ForwardReturn(f, jj, Horizons[1]),
     p14 |-> ForwardReturn(f, jj, Horizons[2]),
     p20 |-> ForwardReturn(f, jj, Horizons[3]),
     p60 |-> ForwardReturn(f, jj, Horizons[4])]

start_scan(f) == Max2(20, f.n - ScanWindow)

\* mutant: the scan does not stop before today
ScanLastToday(f) == f.n - 1

\* the last index of range(start_scan, len(df) - 1)
ScanLast(f) == f.n - 2

RECURSIVE ScanLoop(_, _, _, _)
\* The for loop over lo..hi in ascending order: the rows appended and the
\* index of each.  The iterations are independent, so the range is split in
\* halves (the evaluator's stack does not hold 500 nested calls).
ScanLoop(f, m, lo, hi) ==
    IF lo > hi THEN [rows |-> << >>, at |-> << >>]
    ELSE IF lo = hi
         THEN IF is_strategy_hit(f, m, lo)
              THEN [rows |-> <<LedgerRow(f, lo)>>, at |-> <<lo>>]
              ELSE [rows |-> << >>, at |-> << >>]
    ELSE LET mid == (lo + hi) \div 2
             a == ScanLoop(f, m, lo, mid)
             b == ScanLoop(f, m, mid + 1, hi)
         IN  [rows |-> a.rows \o b.rows, at |-> a.at \o b.at]

\* ledger_df['p20'].dropna()
P20Valid(ledger) ==
    SelectSeq([k \in 1..Len(ledger) |-> ledger[k].p20],
              LAMBDA x : x # NoneCell /\ ~IsNaN(x))

RECURSIVE SumSeq(_)
SumSeq(s) == IF s = << >> THEN Num(0) ELSE Add(s[1], SumSeq(Tail(s)))

CountPositive(s) == Len(SelectSeq(s, LAMBDA x : Gt(x, Num(0))))

\* mutant: the win rate is taken over all hits, not over the valid ones
WinRateAllHits(ledger) ==
    IF Len(ledger) > 0 /\ P20Valid(ledger) # << >>
    THEN Rat(CountPositive(P20Valid(ledger)), Len(ledger))
    ELSE Num(0)

WinRate(ledger) ==
    IF Len(ledger) > 0 /\ P20Valid(ledger) # << >>
    THEN Rat(CountPositive(P20Valid(ledger)), Len(P20Valid(ledger)))
    ELSE Num(0)

AvgRet(ledger) ==
    IF Len(ledger) > 0 /\ P20Valid(ledger) # << >>
    THEN Div(SumSeq(P20Valid(ledger)), Num(Len(P20Valid(ledger))))
    ELSE Num(0)

Strength(hits, win, avg) ==
    IF hits = 0 THEN "2 stars (first trigger)"
    ELSE IF Gt(win, Rat(6, 10)) /\ Gt(avg, Rat(5, 100)) THEN "5 stars"
    ELSE "3 stars"

Advice(win) ==
    IF Gt(win, Rat(7, 10)) THEN "heavy position"
    ELSE IF Gt(win, Rat(5, 10)) THEN "build in batches"
    ELSE "light trial"

\* the dictionary returned at lines 87-97
ReversalRecord(f, c, nm, hits, win, avg) ==
    [t        |-> "rec",
     date     |-> f.n - 1,
     code     |-> c,
     name     |-> nm,
     price    |-> f.close[f.n - 1],
     pct      |-> f.pct[f.n - 1],
     turnover |-> f.turnover[f.n - 1],
     hit_count |-> hits,
     win_rate |-> FormatPct(win, 1),
     avg_ret  |-> FormatPct(avg, 2),
     strength |-> Strength(hits, win, avg),
     advice   |-> Advice(win)]

\* The filters of lines 20-29: TRUE when analyze_stock goes on to the scan.
\* A file that read_csv rejects, and a name that is not a string ("ST" in name
\* raises TypeError), end in the except clause.
ReversalAccepts(f, c, nm) ==
    /\ f.valid
    /\ f.n >= MinBarsReversal
    /\ nm.t = "str"
    /\ ~Contains(nm.s, <<"S", "T">>)
    /\ ~StartsWith(c, <<"3", "0">>)
    /\ 5 <= f.close[f.n - 1]
    /\ f.close[f.n - 1] <= 20

\* analyze_stock as a function of its inputs (used by main's workers)
AnalyzeStock(f, c, nm) ==
    IF ~ReversalAccepts(f, c, nm) THEN None
    ELSE LET m == RollingMean(f.vol, f.n, 20)
             scan == ScanLoop(f, m, start_scan(f), ScanLast(f))
         IN  IF is_strategy_hit(f, m, f.n - 1)
             THEN ReversalRecord(f, c, nm, Len(scan.rows),
                                 WinRate(scan.rows), AvgRet(scan.rows))
             ELSE None

-----------------------------------------------------------------------------
(* Input frames for analyze_stock.  A frame is a quiet market (price Base,  *)
(* volume VolBase, open = previous close) carrying a few motifs: a motif    *)
(* at bar s shapes the bars before s (a volume burst, two thin bars) and    *)
(* the move of bar s.                                                       *)

ExtraLen == 1

LongLen == 530

MaxMotifs == 3

BasePrice == 10

VolBase == 100

VolBurst == 400

VolThin == 10

Kinds == {"hit", "edge", "far", "half", "flat", "down", "rebound", "gap"}

KindsWith(ms, ks) == {m \in ms : m.kind \in ks}

Ups(ms) == {m.at : m \in KindsWith(ms, {"hit", "edge", "far", "half", "rebound", "gap"})}

Downs(ms) == {m.at : m \in KindsWith(ms, {"down"})}
                 \cup {m.at - 1 : m \in KindsWith(ms, {"rebound"})}

Bursts(ms) == {m.at - 5 : m \in KindsWith(ms, Kinds \ {"edge", "far"})}
                  \cup {m.at - 10 : m \in KindsWith(ms, {"edge"})}
                  \cup {m.at - 11 : m \in KindsWith(ms, {"far"})}

Thins(ms) == {m.at - 1 : m \in ms} \cup {m.at - 2 : m \in KindsWith(ms, Kinds \ {"half"})}

Gaps(ms) == {m.at : m \in KindsWith(ms, {"gap"})}

Level(base, ms, i) ==
    base + Cardinality({u \in Ups(ms) : u <= i}) - Cardinality({d \in Downs(ms) : d <= i})

MkFrame(n, base, ms) ==
    LET cl == [i \in 0..(n - 1) |-> Level(base, ms, i)]
        op == [i \in 0..(n - 1) |->
                  IF i \in Gaps(ms) THEN cl[i] + 1
                  ELSE IF i = 0 THEN base ELSE cl[i - 1]]
    IN  [valid    |-> TRUE,
         n        |-> n,
         open     |-> op,
         close    |-> cl,
         high     |-> [i \in 0..(n - 1) |-> Max2(op[i], cl[i])],
         low      |-> [i \in 0..(n - 1) |-> Min2(op[i], cl[i])],
         vol      |-> [i \in 0..(n - 1) |->
                          IF i \in Thins(ms) THEN VolThin
                          ELSE IF i \in Bursts(ms) THEN VolBurst
                          ELSE VolBase],
         turnover |-> [i \in 0..(n - 1) |-> 1],
         pct      |-> [i \in 0..(n - 1) |-> 0]]

\* a file read_csv rejects (a column is missing)
BadFrame == [valid |-> FALSE, n |-> 0]

HistSites(n) == {23, 25, n - 45, n - 21, n - 20}

SiteMotifs(sites, kinds) == {[at |-> s, kind |-> k] : s \in sites, k \in kinds}

RECURSIVE MotifSets(_, _, _)
\* the sets of at most k motifs at distinct sites
MotifSets(sites, kinds, k) ==
    IF k = 0 THEN {{}}
    ELSE LET less == MotifSets(sites, kinds, k - 1)
         IN  less \cup UNION {{ms \cup {m} :
                                  m \in {x \in SiteMotifs(sites, kinds) :
                                            \A y \in ms : y.at < x.at}} :
                              ms \in less}

TodayMotifs(n) == {{}, {[at |-> n - 1, kind |-> "hit"]}}

PlainCode == <<"0", "0", "0", "0", "0", "1">>

PlainName == Str(<<"A", "B">>)

\* [f, code, name] triples analyze_stock is run on
\* every single motif, and the sets of at most k motifs of the given kinds,
\* each with and without a hit today
ReversalInputsOf(n, kinds, k) ==
    {[f |-> MkFrame(n, BasePrice, hist \cup today), code |-> PlainCode, name |-> PlainName] :
        hist \in MotifSets(HistSites(n), Kinds, 1) \cup MotifSets(HistSites(n), kinds, k),
        today \in TodayMotifs(n)}

\* histories longer than the scan window
LongInputs ==
    {[f |-> MkFrame(LongLen, BasePrice, hist \cup today), code |-> PlainCode,
      name |-> PlainName] :
        hist \in MotifSets({25, LongLen - ScanWindow, LongLen - 21}, {"hit"}, 2),
        today \in TodayMotifs(LongLen)}

\* inputs the filters of lines 21-29 decide
FilteredInputs ==
    LET f == MkFrame(MinBarsReversal, BasePrice, {[at |-> MinBarsReversal - 1, kind |-> "hit"]})
    IN  {[f |-> f, code |-> c, name |-> nm] :
            c \in {PlainCode, <<"3", "0", "0", "0", "0", "1">>},
            nm \in {PlainName, Str(<<"*", "S", "T", "A">>), FloatName}}
        \cup {[f |-> g, code |-> PlainCode, name |-> PlainName] :
                g \in {BadFrame,
                       MkFrame(MinBarsReversal - 1, BasePrice,
                               {[at |-> MinBarsReversal - 2, kind |-> "hit"]}),
                       MkFrame(MinBarsReversal, 20,
                               {[at |-> MinBarsReversal - 1, kind |-> "hit"]}),
                       MkFrame(MinBarsReversal, 5,
                               {[at |-> MinBarsReversal - 1, kind |-> "down"]})}}

Unused == "-"

\* is_strategy_hit has not been evaluated / has returned b
NotRun == [t |-> "unset"]

Returned(b) == [t |-> "bool", hit |-> b]

InitRev ==
    /\ \E x \in UNION {ReversalInputsOf(n, {"hit", "down"}, MaxMotifs) :
                          n \in MinBarsReversal..(MinBarsReversal + ExtraLen)}
                \cup LongInputs
                \cup FilteredInputs :
          /\ df = x.f
          /\ code = x.code
          /\ name = x.name
    /\ pc = "read"
    /\ ma20_vol = << >>
    /\ history_ledger = << >>
    /\ ledger_at = << >>
    /\ hit_count = 0
    /\ win_rate_20d = Num(0)
    /\ avg_ret_20d = Num(0)
    /\ ret = None
    /\ ind = Unused
    /\ alt = Unused
    /\ probe = 0
    /\ hitA = NotRun
    /\ hitB = NotRun
    /\ prog = Unused
    /\ files = << >>
    /\ results = << >>
    /\ final = << >>
    /\ aborted = FALSE

\* lines 18-35: read the file, filter, prepare the columns
Read ==
    /\ pc = "read"
    /\ IF ReversalAccepts(df, code, name)
       THEN /\ ma20_vol' = RollingMean(df.vol, df.n, 20)
            /\ pc' = "scan"
       ELSE /\ pc' = "done"
            /\ UNCHANGED ma20_vol
    /\ UNCHANGED <<df, code, name, history_ledger, ledger_at, hit_count, win_rate_20d,
                   avg_ret_20d, ind, ret, alt, probe, hitA, hitB, prog, files, results,
                   final, aborted>>

\* lines 48-62: the virtual ledger
Scan ==
    /\ pc = "scan"
    /\ LET scan == ScanLoop(df, ma20_vol, start_scan(df), ScanLast(df))
       IN  /\ history_ledger' = scan.rows
           /\ ledger_at' = scan.at
    /\ pc' = "stats"
    /\ UNCHANGED <<df, code, name, ma20_vol, hit_count, win_rate_20d, avg_ret_20d, ind,
                   ret, alt, probe, hitA, hitB, prog, files, results, final, aborted>>

\* lines 64-73: the ledger's statistics
Stats ==
    /\ pc = "stats"
    /\ hit_count' = Len(history_ledger)
    /\ win_rate_20d' = WinRate(history_ledger)
    /\ avg_ret_20d' = AvgRet(history_ledger)
    /\ pc' = "today"
    /\ UNCHANGED <<df, code, name, ma20_vol, history_ledger, ledger_at, ind, ret, alt,
                   probe, hitA, hitB, prog, files, results, final, aborted>>

\* lines 75-97: today's signal and the returned record
Today ==
    /\ pc = "today"
    /\ ret' = IF is_strategy_hit(df, ma20_vol, df.n - 1)
              THEN ReversalRecord(df, code, name, hit_count, win_rate_20d, avg_ret_20d)
              ELSE None
    /\ pc' = "done"
    /\ UNCHANGED <<df, code, name, ma20_vol, history_ledger, ledger_at, hit_count,
                   win_rate_20d, avg_ret_20d, ind, alt, probe, hitA, hitB, prog, files,
                   results, final, aborted>>

NextRev == Read \/ Scan \/ Stats \/ Today

SpecRev == InitRev /\ [][NextRev]_vars

-----------------------------------------------------------------------------
(* Two runs of is_strategy_hit, on df and on a frame alt that differs from  *)
(* df after bar cut.                                                        *)

GrowBars == 2

PairKinds == {"vol", "price", "drop", "grow"}

Perturb(f, cut, kind) ==
    LET n2 == IF kind = "drop" THEN Max2(cut + 1, MinBarsReversal)
              ELSE IF kind = "grow" THEN f.n + GrowBars
              ELSE f.n
        old(i) == i < f.n /\ (i <= cut \/ kind \in {"drop", "grow"})
        dp(i) == IF kind = "price" /\ i > cut THEN 3 ELSE 0
        at(i) == Min2(i, f.n - 1)
    IN  [valid    |-> TRUE,
         n        |-> n2,
         open     |-> [i \in 0..(n2 - 1) |-> IF old(i) THEN f.open[i] ELSE f.open[at(i)] + dp(i)],
         close    |-> [i \in 0..(n2 - 1) |-> IF old(i) THEN f.close[i] ELSE f.close[at(i)] + dp(i)],
         high     |-> [i \in 0..(n2 - 1) |-> IF old(i) THEN f.high[i] ELSE f.high[at(i)] + dp(i)],
         low      |-> [i \in 0..(n2 - 1) |-> IF old(i) THEN f.low[i] ELSE f.low[at(i)] + dp(i)],
         vol      |-> [i \in 0..(n2 - 1) |->
                          IF old(i) THEN f.vol[i]
                          ELSE IF kind = "vol" THEN f.vol[at(i)] + VolBurst
                          ELSE f.vol[at(i)]],
         turnover |-> [i \in 0..(n2 - 1) |-> 1],
         pct      |-> [i \in 0..(n2 - 1) |-> 0]]

PairFrames ==
    {MkFrame(MinBarsReversal + 1, BasePrice, hist \cup today) :
        hist \in MotifSets({25, MinBarsReversal - 20}, {"hit"}, 1),
        today \in TodayMotifs(MinBarsReversal + 1)}

PairCuts == {24, 25, MinBarsReversal - 20, MinBarsReversal - 1, MinBarsReversal}

InitPair ==
    /\ \E f \in PairFrames, cut \in PairCuts, kind \in PairKinds :
          /\ df = f
          /\ alt = Perturb(f, cut, kind)
          /\ \E i \in {cut - 1, cut, cut + 1} :
                /\ i < Min2(df.n, alt.n)
                /\ probe = i
    /\ code = PlainCode
    /\ name = PlainName
    /\ pc = "pair"
    /\ ma20_vol = << >>
    /\ history_ledger = << >>
    /\ ledger_at = << >>
    /\ hit_count = 0
    /\ win_rate_20d = Num(0)
    /\ avg_ret_20d = Num(0)
    /\ ret = None
    /\ ind = Unused
    /\ hitA = NotRun
    /\ hitB = NotRun
    /\ prog = Unused
    /\ files = << >>
    /\ results = << >>
    /\ final = << >>
    /\ aborted = FALSE

\* lines 31-46 on df: the columns, then is_strategy_hit(probe)
EvalA ==
    /\ pc = "pair"
    /\ hitA = NotRun
    /\ hitA' = Returned(is_strategy_hit(df, RollingMean(df.vol, df.n, 20), probe))
    /\ UNCHANGED <<pc, df, code, name, ma20_vol, history_ledger, ledger_at, hit_count,
                   win_rate_20d, avg_ret_20d, ind, ret, alt, probe, hitB, prog, files,
                   results, final, aborted>>

\* lines 31-46 on alt
EvalB ==
    /\ pc = "pair"
    /\ hitB = NotRun
    /\ hitB' = Returned(is_strategy_hit(alt, RollingMean(alt.vol, alt.n, 20), probe))
    /\ UNCHANGED <<pc, df, code, name, ma20_vol, history_ledger, ledger_at, hit_count,
                   win_rate_20d, avg_ret_20d, ind, ret, alt, probe, hitA, prog, files,
                   results, final, aborted>>

NextPair == EvalA \/ EvalB

SpecPair == InitPair /\ [][NextPair]_vars

-----------------------------------------------------------------------------
(* src/stock_scanner_go_mini.py: calculate_indicators                       *)

MinBarsScanner == 60

\* close.diff()
Delta(f, i) == IF i = 0 THEN NaN ELSE Num(f.close[i] - f.close[i - 1])

\* delta.where(delta > 0, 0): the cell is kept where the test is true
GainCell(f, i) == IF Gt(Delta(f, i), Num(0)) THEN Delta(f, i) ELSE Num(0)

\* -delta.where(delta < 0, 0)
LossCell(f, i) == Neg(IF Lt(Delta(f, i), Num(0)) THEN Delta(f, i) ELSE Num(0))

RECURSIVE SumCells(_, _, _)
\* cell(lo) + ... + cell(hi); NaN when a cell is NaN
SumCells(cell(_), lo, hi) ==
    IF lo > hi THEN Num(0)
    ELSE IF lo = hi THEN cell(lo)
    ELSE LET mid == (lo + hi) \div 2
         IN  Add(SumCells(cell, lo, mid), SumCells(cell, mid + 1, hi))

\* rolling(window=w).mean() at i: NaN until w cells, none of them NaN
RollingAt(cell(_), i, w) ==
    IF i < w - 1 THEN NaN ELSE Div(SumCells(cell, i - w + 1, i), Num(w))

\* mutant: the zero average loss is not replaced
ReplaceZeroKept(x) == x

\* loss.replace(0, np.nan)
ReplaceZero(x) == IF x = Num(0) THEN NaN ELSE x

\* 100 - (100 / (1 + rs)) with rs = gain / loss.replace(0, nan)
Rsi6At(f, i) ==
    LET gain == RollingAt(LAMBDA k : GainCell(f, k), i, 6)
        loss == RollingAt(LAMBDA k : LossCell(f, k), i, 6)
        rs == Div(gain, ReplaceZero(loss))
    IN  Sub(Num(100), Div(Num(100), Add(Num(1), rs)))

RECURSIVE MinCol(_, _, _)
MinCol(col, lo, hi) == IF lo = hi THEN col[lo] ELSE Min2(col[hi], MinCol(col, lo, hi - 1))

RECURSIVE MaxCol(_, _, _)
MaxCol(col, lo, hi) == IF lo = hi THEN col[lo] ELSE Max2(col[hi], MaxCol(col, lo, hi - 1))

\* (close - low_list) / (high_list - low_list) * 100 over the 9-bar window
RsvAt(f, i) ==
    IF i < 8 THEN NaN
    ELSE LET lo == MinCol(f.low, i - 8, i)
             hi == MaxCol(f.high, i - 8, i)
         IN  Mul(Div(Num(f.close[i] - lo), Num(hi - lo)), Num(100))

RECURSIVE Pow(_, _)
Pow(b, e) == IF e = 0 THEN 1 ELSE b * Pow(b, e - 1)

\* rsv.ewm(com=2).mean() at i (adjust=True, ignore_na=False): the average of
\* the defined rsv[k], k <= i, with weights (2/3)^(i-k); NaN when none is
\* defined.  The weights are scaled by a common factor to the integers
\* 2^(last-k) * 3^(k-first), first and last the ends of the defined cells.
KdjKAt(rsv, i) ==
    LET ks == {k \in 0..i : ~IsNaN(rsv[k])}
    IN  IF ks = {} THEN NaN
        ELSE LET first == CHOOSE k \in ks : \A x \in ks : k <= x
                 last == CHOOSE k \in ks : \A x \in ks : k >= x
                 w(k) == IF k \in ks THEN Pow(2, last - k) * Pow(3, k - first) ELSE 0
             IN  Div(SumCells(LAMBDA k : IF k \in ks THEN Mul(Num(w(k)), rsv[k])
                                                    ELSE Num(0), first, last),
                     SumCells(LAMBDA k : Num(w(k)), first, last))

\* (成交量.shift(1)).rolling(5).mean()
VolMa5At(f, i) ==
    RollingAt(LAMBDA k : IF k = 0 THEN NaN ELSE Num(f.vol[k - 1]), i, 5)

\* the columns calculate_indicators adds to the frame
calculate_indicators(f) ==
    [rsi6  |-> [i \in 0..(f.n - 1) |-> Rsi6At(f, i)],
     kdj_k |-> LET rsv == [i \in 0..(f.n - 1) |-> RsvAt(f, i)]
               IN  [i \in 0..(f.n - 1) |-> KdjKAt(rsv, i)],
     ma5   |-> [i \in 0..(f.n - 1) |-> RollingAt(LAMBDA k : Num(f.close[k]), i, 5)],
     ma60  |-> [i \in 0..(f.n - 1) |-> RollingAt(LAMBDA k : Num(f.close[k]), i, 60)],
     avg_turnover_30 |->
               [i \in 0..(f.n - 1) |-> RollingAt(LAMBDA k : Num(f.turnover[k]), i, 30)],
     vol_ma5 |-> [i \in 0..(f.n - 1) |-> VolMa5At(f, i)],
     vol_ratio |-> [i \in 0..(f.n - 1) |-> Div(Num(f.vol[i]), VolMa5At(f, i))]]

-----------------------------------------------------------------------------
(* calculate_indicators applied to short frames of free closes              *)

MaxBars == 9

ClosePrices == {10, 11}

RECURSIVE Seqs(_, _)
\* the sequences of length k over S
Seqs(S, k) == IF k = 0 THEN {<< >>}
              ELSE {Append(q, x) : q \in Seqs(S, k - 1), x \in S}

\* the frame of the closes cs, each bar opening at the previous close
FrameOfCloses(cs, vols, turn, pcts) ==
    LET n == Len(cs)
        op == [i \in 0..(n - 1) |-> IF i = 0 THEN cs[1] ELSE cs[i]]
        cl == [i \in 0..(n - 1) |-> cs[i + 1]]
    IN  [valid    |-> TRUE,
         n        |-> n,
         open     |-> op,
         close    |-> cl,
         high     |-> [i \in 0..(n - 1) |-> Max2(op[i], cl[i])],
         low      |-> [i \in 0..(n - 1) |-> Min2(op[i], cl[i])],
         vol      |-> [i \in 0..(n - 1) |-> vols[i + 1]],
         turnover |-> [i \in 0..(n - 1) |-> turn],
         pct      |-> [i \in 0..(n - 1) |-> pcts[i + 1]]]

Const(n, x) == [i \in 1..n |-> x]

InitInd ==
    /\ \E n \in 1..MaxBars : \E cs \in Seqs(ClosePrices, n) :
          df = FrameOfCloses(cs, Const(n, VolBase), 1, Const(n, 0))
    /\ code = PlainCode
    /\ name = PlainName
    /\ pc = "calc"
    /\ ma20_vol = << >>
    /\ history_ledger = << >>
    /\ ledger_at = << >>
    /\ hit_count = 0
    /\ win_rate_20d = Num(0)
    /\ avg_ret_20d = Num(0)
    /\ ret = None
    /\ ind = Unused
    /\ alt = Unused
    /\ probe = 0
    /\ hitA = NotRun
    /\ hitB = NotRun
    /\ prog = Unused
    /\ files = << >>
    /\ results = << >>
    /\ final = << >>
    /\ aborted = FALSE

\* lines 30-57
Calc ==
    /\ pc = "calc"
    /\ ind' = calculate_indicators(df)
    /\ pc' = "done"
    /\ UNCHANGED <<df, code, name, ma20_vol, history_ledger, ledger_at, hit_count,
                   win_rate_20d, avg_ret_20d, ret, alt, probe, hitA, hitB, prog, files,
                   results, final, aborted>>

NextInd == Calc

SpecInd == InitInd /\ [][NextInd]_vars

-----------------------------------------------------------------------------
(* src/stock_scanner_go_mini.py: process_single_stock                       *)

\* the thresholds of lines 10-23, as exact rationals
MIN_PRICE == Num(5)

MAX_AVG_TURNOVER_30 == Rat(45, 10)

MIN_VOLUME_RATIO == Rat(2, 10)

MAX_VOLUME_RATIO == Rat(115, 100)

RSI6_MAX == Num(35)

KDJ_K_MAX == Num(45)

MIN_PROFIT_POTENTIAL == Num(10)

MAX_TODAY_CHANGE == Num(5)

\* an exception that leaves the function
Raised == [t |-> "raise"]

UpperChar(c) == IF c = "s" THEN "S" ELSE IF c = "t" THEN "T" ELSE c

\* str.upper() on the letters the modelled names use
Upper(s) == [k \in 1..Len(s) |-> UpperChar(s[k])]

\* round(x, k) of a double: NaN and the infinities are kept
RoundTo(x, k) ==
    IF ~IsFinite(x) THEN x
    ELSE Rat(Sign(x[1]) * RoundHalfEven(Abs(x[1]) * Pow10(k), x[2]), Pow10(k))

Potential(f, cols) ==
    Mul(Div(Sub(cols.ma60[f.n - 1], Num(f.close[f.n - 1])), Num(f.close[f.n - 1])),
        Num(100))

\* the filters of lines 75-101 on latest = df.iloc[-1] and prev = df.iloc[-2]:
\* TRUE when no filter returns None
PassesFilters(f, cols) ==
    LET last == f.n - 1
        close == Num(f.close[last])
        change == Num(f.pct[last])
        is_above_ma5 == Ge(close, cols.ma5[last])
        is_ma5_turning_up == Ge(cols.ma5[last], cols.ma5[last - 1])
    IN  /\ ~(Lt(close, MIN_PRICE) \/ Gt(cols.avg_turnover_30[last], MAX_AVG_TURNOVER_30))
        /\ ~(Lt(Potential(f, cols), MIN_PROFIT_POTENTIAL) \/ Gt(change, MAX_TODAY_CHANGE))
        /\ ~(Gt(cols.rsi6[last], RSI6_MAX) \/ Gt(cols.kdj_k[last], KDJ_K_MAX))
        /\ (is_above_ma5 \/ is_ma5_turning_up)
        /\ (Le(MIN_VOLUME_RATIO, cols.vol_ratio[last])
            /\ Le(cols.vol_ratio[last], MAX_VOLUME_RATIO))

\* the dictionary returned at lines 103-113 (the two text fields by the
\* rounded number they print)
ScannerRecord(f, c, nm, cols) ==
    [t         |-> "rec",
     code      |-> c,
     name      |-> nm,
     date      |-> f.n - 1,
     price     |-> RoundTo(Num(f.close[f.n - 1]), 2),
     vol_ratio |-> RoundTo(cols.vol_ratio[f.n - 1], 2),
     rsi6      |-> RoundTo(cols.rsi6[f.n - 1], 1),
     kdj_k     |-> RoundTo(cols.kdj_k[f.n - 1], 1),
     potential |-> RoundTo(Potential(f, cols), 1),
     change    |-> RoundTo(Num(f.pct[f.n - 1]), 1)]

\* process_single_stock as a function of its inputs (used by main's workers)
ProcessSingleStock(f, c, nm) ==
    IF nm.t # "str" THEN Raised
    ELSE IF Contains(Upper(nm.s), <<"S", "T">>) THEN None
    ELSE IF ~f.valid \/ f.n < MinBarsScanner THEN None
    ELSE LET cols == calculate_indicators(f)
         IN  IF PassesFilters(f, cols) THEN ScannerRecord(f, c, nm, cols) ELSE None

-----------------------------------------------------------------------------
(* Input frames for process_single_stock: a flat market at HighLevel whose  *)
(* last TailLen + 1 bars move.                                              *)

TailLen == 6

HighLevel == 12

TailPrices == {10, 11}

PreTail == {12, 10, 9}

VolProfiles == {"normal", "thin", "burst", "halted"}

LastVol(profile) ==
    IF profile = "thin" THEN VolThin ELSE IF profile = "burst" THEN VolBurst ELSE VolBase

ScanFrame(n, pre, tail, profile, turn, pctLast) ==
    FrameOfCloses(Const(n - Len(tail) - 1, HighLevel) \o <<pre>> \o tail,
                  [i \in 1..n |-> IF i = n THEN LastVol(profile)
                                  ELSE IF profile = "halted" THEN 0 ELSE VolBase],
                  turn,
                  [i \in 1..n |-> IF i = n THEN pctLast ELSE 0])

\* every tail in a normal market, and one quiet tail under every profile
ScannerFrames ==
    {ScanFrame(n, pre, tail, "normal", 1, 0) :
        n \in MinBarsScanner..(MinBarsScanner + ExtraLen), pre \in PreTail,
        tail \in Seqs(TailPrices, TailLen)}
    \cup {ScanFrame(MinBarsScanner, 10, Const(TailLen, 10), profile, turn, pctLast) :
            profile \in VolProfiles, turn \in {1, 5}, pctLast \in {0, 6}}
    \cup {ScanFrame(MinBarsScanner, HighLevel, Const(TailLen, HighLevel), "normal", 1, 0),
          ScanFrame(MinBarsScanner - 1, 10, Const(TailLen, 10), "normal", 1, 0),
          ScanFrame(MinBarsScanner, 4, Const(TailLen, 4), "normal", 1, 0),
          BadFrame}

ScannerNames == {PlainName, Str(<<"*", "S", "T", "A">>), Str(<<"s", "t", "B">>), FloatName}

InitOne ==
    /\ \/ /\ df \in ScannerFrames
          /\ name = PlainName
       \/ /\ df = ScanFrame(MinBarsScanner, 10, Const(TailLen, 10), "normal", 1, 0)
          /\ name \in ScannerNames
    /\ code = PlainCode
    /\ pc = "lookup"
    /\ ma20_vol = << >>
    /\ history_ledger = << >>
    /\ ledger_at = << >>
    /\ hit_count = 0
    /\ win_rate_20d = Num(0)
    /\ avg_ret_20d = Num(0)
    /\ ret = None
    /\ ind = Unused
    /\ alt = Unused
    /\ probe = 0
    /\ hitA = NotRun
    /\ hitB = NotRun
    /\ prog = Unused
    /\ files = << >>
    /\ results = << >>
    /\ final = << >>
    /\ aborted = FALSE

\* lines 60-65: the name lookup and the ST test, outside the try block
Lookup ==
    /\ pc = "lookup"
    /\ IF name.t # "str"
       THEN ret' = Raised /\ pc' = "done"
       ELSE IF Contains(Upper(name.s), <<"S", "T">>)
            THEN ret' = None /\ pc' = "done"
            ELSE ret' = ret /\ pc' = "indicators"
    /\ UNCHANGED <<df, code, name, ma20_vol, history_ledger, ledger_at, hit_count,
                   win_rate_20d, avg_ret_20d, ind, alt, probe, hitA, hitB, prog, files,
                   results, final, aborted>>

\* lines 67-73: read the file, require 60 bars, compute the indicators
Indicators ==
    /\ pc = "indicators"
    /\ IF ~df.valid \/ df.n < MinBarsScanner
       THEN /\ pc' = "done"
            /\ UNCHANGED ind
       ELSE /\ ind' = calculate_indicators(df)
            /\ pc' = "filter"
    /\ UNCHANGED <<df, code, name, ma20_vol, history_ledger, ledger_at, hit_count,
                   win_rate_20d, avg_ret_20d, ret, alt, probe, hitA, hitB, prog, files,
                   results, final, aborted>>

\* lines 75-113: the filters and the returned record
Filter ==
    /\ pc = "filter"
    /\ ret' = IF PassesFilters(df, ind) THEN ScannerRecord(df, code, name, ind) ELSE None
    /\ pc' = "done"
    /\ UNCHANGED <<df, code, name, ma20_vol, history_ledger, ledger_at, hit_count,
                   win_rate_20d, avg_ret_20d, ind, alt, probe, hitA, hitB, prog, files,
                   results, final, aborted>>

NextOne == Lookup \/ Indicators \/ Filter

SpecOne == InitOne /\ [][NextOne]_vars

-----------------------------------------------------------------------------
(* main() of both programs, from the loaded name table on: the worker pool, *)
(* the join, the filter of the returned values and the sort.  The pool's    *)
(* queue hands the tasks out in order; they finish in any order.            *)

NFiles == 3

\* n_jobs=2 (volume_reversal_strategy.py), cpu_count() (stock_scanner_go_mini.py)
PoolSize == 2

Pending == [t |-> "pending"]

Running == [t |-> "running"]

Codes == <<<<"0", "0", "0", "0", "0", "1">>, <<"0", "0", "0", "0", "0", "2">>,
           <<"6", "0", "0", "0", "0", "3">>, <<"6", "0", "0", "0", "0", "4">>>>

\* frames whose ledgers win 1 of 1, 1 of 2, and a frame with no signal today
ReversalUniverse ==
    LET n == MinBarsReversal
    IN  {MkFrame(n, BasePrice, {[at |-> n - 21, kind |-> "hit"], [at |-> n - 1, kind |-> "hit"]}),
         MkFrame(n, BasePrice, {[at |-> 23, kind |-> "hit"], [at |-> 25, kind |-> "hit"],
                                [at |-> n - 1, kind |-> "hit"]}),
         MkFrame(n, BasePrice, {[at |-> 25, kind |-> "hit"]})}

\* two frames that pass every filter (RSI6 0 and RSI6 undefined) and one that
\* fails the headroom filter
ScannerUniverse ==
    {ScanFrame(MinBarsScanner, HighLevel, Const(TailLen, 10), "normal", 1, 0),
     ScanFrame(MinBarsScanner, 10, Const(TailLen, 10), "normal", 1, 0),
     ScanFrame(MinBarsScanner, HighLevel, Const(TailLen, 11), "normal", 1, 0)}

\* the names of the universe: all plain, or one file's name is special
NameRows ==
    {[i \in 1..NFiles |-> PlainName]}
    \cup {[i \in 1..NFiles |-> IF i = k THEN nm ELSE PlainName] :
            k \in 1..NFiles, nm \in {Str(<<"*", "S", "T", "A">>), FloatName}}

InitScan ==
    /\ prog \in {"reversal", "scanner"}
    /\ \E frames \in [1..NFiles -> IF prog = "reversal" THEN ReversalUniverse
                                   ELSE ScannerUniverse] :
          \E names \in NameRows :
             files = [i \in 1..NFiles |->
                         [code |-> Codes[i], name |-> names[i], f |-> frames[i]]]
    /\ results = [i \in 1..NFiles |-> Pending]
    /\ final = << >>
    /\ aborted = FALSE
    /\ pc = "pool"
    /\ df = Unused
    /\ code = Unused
    /\ name = Unused
    /\ ma20_vol = << >>
    /\ history_ledger = << >>
    /\ ledger_at = << >>
    /\ hit_count = 0
    /\ win_rate_20d = Num(0)
    /\ avg_ret_20d = Num(0)
    /\ ret = None
    /\ ind = Unused
    /\ alt = Unused
    /\ probe = 0
    /\ hitA = NotRun
    /\ hitB = NotRun

mainUnchanged == <<df, code, name, ma20_vol, history_ledger, ledger_at, hit_count,
                   win_rate_20d, avg_ret_20d, ind, ret, alt, probe, hitA, hitB, prog,
                   files>>

\* a free worker takes the next task of the queue
Start(i) ==
    /\ pc = "pool"
    /\ results[i] = Pending
    /\ \A k \in 1..(i - 1) : results[k] # Pending
    /\ Cardinality({k \in 1..NFiles : results[k] = Running}) < PoolSize
    /\ results' = [results EXCEPT ![i] = Running]
    /\ UNCHANGED <<pc, final, aborted>>
    /\ UNCHANGED mainUnchanged

\* the per-security function called by the worker
Worker(file) ==
    IF prog = "reversal" THEN AnalyzeStock(file.f, file.code, file.name)
    ELSE ProcessSingleStock(file.f, file.code, file.name)

\* a worker finishes its task: the value returned, or the exception raised
Finish(i) ==
    /\ pc = "pool"
    /\ results[i] = Running
    /\ results' = [results EXCEPT ![i] = Worker(files[i])]
    /\ UNCHANGED <<pc, final, aborted>>
    /\ UNCHANGED mainUnchanged

\* Parallel(...)(...) / pool.map(...) return when every task is done; pool.map
\* then raises the first exception a task raised, and main ends with it
Join ==
    /\ pc = "pool"
    /\ \A k \in 1..NFiles : results[k].t \notin {"pending", "running"}
    /\ IF \E k \in 1..NFiles : results[k] = Raised
       THEN aborted' = TRUE /\ pc' = "done"
       ELSE aborted' = FALSE /\ pc' = "collect"
    /\ UNCHANGED <<results, final>>
    /\ UNCHANGED mainUnchanged

\* [r for r in results if r is not None]
NotNone(rs) == SelectSeq(rs, LAMBDA r : r # None)

CharCode(c) ==
    CASE c = "%" -> 37 [] c = "-" -> 45 [] c = "." -> 46
      [] c = "0" -> 48 [] c = "1" -> 49 [] c = "2" -> 50 [] c = "3" -> 51
      [] c = "4" -> 52 [] c = "5" -> 53 [] c = "6" -> 54 [] c = "7" -> 55
      [] c = "8" -> 56 [] c = "9" -> 57
      [] c = "a" -> 97 [] c = "f" -> 102 [] c = "i" -> 105 [] c = "n" -> 110

RECURSIVE StrLess(_, _)
\* a < b for Python strings
StrLess(a, b) ==
    IF b = << >> THEN FALSE
    ELSE IF a = << >> THEN TRUE
    ELSE IF CharCode(Head(a)) # CharCode(Head(b)) THEN CharCode(Head(a)) < CharCode(Head(b))
    ELSE StrLess(Tail(a), Tail(b))

\* sort_values(by="历史20日胜率", ascending=False): the column holds the
\* formatted strings, so the order is that of strings
ReversalSorted(s) ==
    \A a, b \in 1..Len(s) : a < b => ~StrLess(s[a].win_rate, s[b].win_rate)

\* x sorts before y in an ascending numeric column, NaN last
NumBefore(x, y) == ~IsNaN(x) /\ (IsNaN(y) \/ Lt(x, y))

\* sort_values(by=['今日量比', 'RSI6'], ascending=[True, True])
ScannerSorted(s) ==
    \A a, b \in 1..Len(s) : a < b =>
        /\ ~NumBefore(s[b].vol_ratio, s[a].vol_ratio)
        /\ (~NumBefore(s[a].vol_ratio, s[b].vol_ratio)) => ~NumBefore(s[b].rsi6, s[a].rsi6)

Orders(k) == {q \in [1..k -> 1..k] : \A a, b \in 1..k : q[a] = q[b] => a = b}

\* the orders a sort of rs may produce (rows of equal key in any order)
SortedOrders(rs) ==
    {s \in {[k \in 1..Len(rs) |-> rs[q[k]]] : q \in Orders(Len(rs))} :
        IF prog = "reversal" THEN ReversalSorted(s) ELSE ScannerSorted(s)}

\* the returned values are filtered and, when any is left, sorted and written
Collect ==
    /\ pc = "collect"
    /\ final' \in SortedOrders(NotNone(results))
    /\ pc' = "done"
    /\ UNCHANGED <<results, aborted>>
    /\ UNCHANGED mainUnchanged

NextScan == (\E i \in 1..NFiles : Start(i) \/ Finish(i)) \/ Join \/ Collect

SpecScan == InitScan /\ [][NextScan]_vars

-----------------------------------------------------------------------------
(* Properties of analyze_stock                                              *)

\* analyze_stock went past its filters and has built the ledger
Scanned == pc \in {"stats", "today", "done"} /\ ReversalAccepts(df, code, name)

Finished == pc = "done" /\ ReversalAccepts(df, code, name)

RECURSIVE SumVol(_, _, _)
SumVol(f, lo, hi) == IF lo > hi THEN 0 ELSE f.vol[lo] + SumVol(f, lo + 1, hi)

\* The predicate as the documentation states it, in integers:
\* v > 1.5 * (S / 20) is 40 v > 3 S, and v < 0.75 * (S / 20) is 80 v < 3 S.
HitAsStated(f, i) ==
    /\ i >= 20
    /\ f.close[i] > f.high[i - 1]
    /\ f.close[i] > f.open[i]
    /\ 80 * f.vol[i - 1] < 3 * SumVol(f, i - 19, i)
    /\ 80 * f.vol[i - 2] < 3 * SumVol(f, i - 19, i)
    /\ \E k \in (i - 10)..(i - 1) :
          /\ k >= 19
          /\ 40 * f.vol[k] > 3 * SumVol(f, k - 19, k)

HitIndices(f, m, lo, hi) == {i \in lo..hi : is_strategy_hit(f, m, i)}

Ascending(s) == \A a, b \in 1..Len(s) : a < b => s[a] < s[b]

Range(s) == {s[k] : k \in 1..Len(s)}

IsQuotient(r, num, den) ==
    r # NoneCell /\ IsFinite(r) /\ r[2] > 0 /\ r[1] * den = r[2] * num

RowAt(row, h) == IF h = 7 THEN row.p7 ELSE IF h = 14 THEN row.p14
                 ELSE IF h = 20 THEN row.p20 ELSE row.p60

\* C4: for every ledger hit at j and every horizon h of 7, 14, 20, 60 the
\* recorded return is (close[j+h] - close[j]) / close[j] when j+h < n and
\* None otherwise.
C4_ForwardReturns ==
    Scanned =>
        \A k \in 1..Len(history_ledger) : \A h \in {7, 14, 20, 60} :
            LET jj == ledger_at[k]
                r == RowAt(history_ledger[k], h)
            IN  IF jj + h < df.n
                THEN IsQuotient(r, df.close[jj + h] - df.close[jj], df.close[jj])
                ELSE r = NoneCell

\* a ledger with a hit whose 60-bar return is defined and one whose 20-bar return is not
C4_Witness ==
    /\ Scanned
    /\ \E k \in 1..Len(history_ledger) :
          history_ledger[k].p60 # NoneCell /\ history_ledger[k].p60 # Num(0)
    /\ \E k \in 1..Len(history_ledger) :
          history_ledger[k].p20 = NoneCell /\ history_ledger[k].p7 # NoneCell

\* the ledger rows whose 20-bar return is defined
Defined20 == {k \in 1..Len(history_ledger) : ledger_at[k] + 20 < df.n}

Won20 == {k \in Defined20 : df.close[ledger_at[k] + 20] > df.close[ledger_at[k]]}

RECURSIVE ProdDen(_)
ProdDen(ks) == IF ks = {} THEN 1
               ELSE LET k == CHOOSE x \in ks : TRUE
                    IN  df.close[ledger_at[k]] * ProdDen(ks \ {k})

RECURSIVE SumNum(_, _)
\* sum over ks of (close[j+20] - close[j]) * d / close[j], d a multiple of every close[j]
SumNum(ks, d) ==
    IF ks = {} THEN 0
    ELSE LET k == CHOOSE x \in ks : TRUE
             jj == ledger_at[k]
         IN  (df.close[jj + 20] - df.close[jj]) * (d \div df.close[jj]) + SumNum(ks \ {k}, d)

\* C5: when some hit has a defined 20-bar return, win_rate_20d is the number
\* of defined and positive returns over the number of defined ones, lies in
\* [0, 1], avg_ret_20d is the mean of the defined returns, and hit_count
\* counts every hit.
C5_WinRate ==
    (pc \in {"today", "done"} /\ ReversalAccepts(df, code, name) /\ Defined20 # {}) =>
        /\ IsQuotient(win_rate_20d, Cardinality(Won20), Cardinality(Defined20))
        /\ 0 <= win_rate_20d[1]
        /\ win_rate_20d[1] <= win_rate_20d[2]
        /\ IsQuotient(avg_ret_20d, SumNum(Defined20, ProdDen(Defined20)),
                      ProdDen(Defined20) * Cardinality(Defined20))
        /\ hit_count = Len(history_ledger)

\* three hits: one won, one did not, one is too recent to have a 20-bar return
C5_Witness ==
    /\ pc = "done"
    /\ ReversalAccepts(df, code, name)
    /\ Cardinality(Defined20) = 2
    /\ Cardinality(Won20) = 1
    /\ hit_count = 3
    /\ ret.t = "rec"

NoData20 == \A k \in 1..Len(history_ledger) : history_ledger[k].p20 \in {NoneCell, NaN}

\* C2 as stated: with no hit that has a defined 20-bar return, the emitted
\* record reports the win rate as a "no data" marker, never as the 0 a ledger
\* of losing hits is reported with.
C2_NoDataMarker ==
    (Finished /\ ret.t = "rec" /\ NoData20) => ret.win_rate # FormatPct(Num(0), 1)

\* C10: is_strategy_hit(i) is true exactly when i >= 20, a bar of the 10
\* before i had a volume above 1.5 times its own defined 20-bar mean, the
\* two bars before i are both below 0.75 times the mean at i, and the close
\* of i is above the previous high and above its own open; it is defined at
\* every index of the frame.
C10_Predicate ==
    pc = "stats" =>
        \A i \in 0..(df.n - 1) :
            is_strategy_hit(df, ma20_vol, i) \in BOOLEAN
            /\ (is_strategy_hit(df, ma20_vol, i) <=> HitAsStated(df, i))

\* a frame with a hit, and with a bar that fails only the shrink test
C10_Witness ==
    /\ pc = "stats"
    /\ \E i \in 20..(df.n - 1) : is_strategy_hit(df, ma20_vol, i)
    /\ \E i \in 20..(df.n - 1) :
          /\ ~is_strategy_hit(df, ma20_vol, i)
          /\ df.close[i] > df.high[i - 1]
          /\ df.close[i] > df.open[i]
          /\ Lt(Num(df.vol[i - 1]), Mul(ma20_vol[i], Rat(3, 4)))
          /\ \E k \in (i - 10)..(i - 1) : Gt(Num(df.vol[k]), Mul(ma20_vol[k], Rat(3, 2)))

Agree(f, g, i) ==
    /\ i < f.n
    /\ i < g.n
    /\ \A k \in 0..i :
          /\ f.open[k] = g.open[k]
          /\ f.close[k] = g.close[k]
          /\ f.high[k] = g.high[k]
          /\ f.low[k] = g.low[k]
          /\ f.vol[k] = g.vol[k]

-----------------------------------------------------------------------------
(* Properties of calculate_indicators                                       *)

\* no close of the 6 bars ending at i is below the close before it
NoLossIn6(f, i) == \A k \in (i - 5)..i : k >= 1 => f.close[k] >= f.close[k - 1]

InRange0to100(x) ==
    IsFinite(x) /\ x[2] > 0 /\ 0 <= x[1] /\ x[1] <= 100 * x[2]

-----------------------------------------------------------------------------
(* Properties of process_single_stock                                       *)

\* C1 as stated: on a series of at least 60 bars, an undefined rsi6 or kdj_k
\* at the last bar fails the oversold confirmation and no record is returned.
C1_UndefinedFails ==
    (pc = "done" /\ name.t = "str" /\ ~Contains(Upper(name.s), <<"S", "T">>)
        /\ df.valid /\ df.n >= 60
        /\ (IsNaN(ind.rsi6[df.n - 1]) \/ IsNaN(ind.kdj_k[df.n - 1])))
    => ret = None

-----------------------------------------------------------------------------
(* Properties of main                                                       *)

\* C6 as stated: after the join the collected list holds exactly one record
\* for each security whose analysis produced a record, that security's own,
\* and no other record, whatever happened to the other securities.
C6_Isolation ==
    pc = "done" =>
        /\ \A i \in 1..NFiles :
              results[i].t = "rec" =>
                  /\ results[i].code = files[i].code
                  /\ results[i].name = files[i].name
                  /\ Cardinality({k \in 1..Len(final) : final[k] = results[i]}) = 1
        /\ \A k \in 1..Len(final) : \E i \in 1..NFiles : final[k] = results[i]

RECURSIVE DigitsValue(_)
DigitsValue(s) ==
    IF s = << >> THEN 0
    ELSE 10 * DigitsValue(SubSeq(s, 1, Len(s) - 1)) + (CharCode(s[Len(s)]) - 48)

\* the number a text "<digits>.<digit>%" denotes, in tenths of a percent
PctTenths(s) ==
    LET dot == CHOOSE k \in 1..Len(s) : s[k] = "."
    IN  10 * DigitsValue(SubSeq(s, 1, dot - 1)) + DigitsValue(SubSeq(s, dot + 1, Len(s) - 1))

\* C7 as stated: in the list written by the volume-reversal main, each
\* record's 20-day win rate is numerically >= that of the record after it.
C7_DescendingWinRate ==
    (prog = "reversal" /\ pc = "done") =>
        \A k \in 1..(Len(final) - 1) :
            PctTenths(final[k].win_rate) >= PctTenths(final[k + 1].win_rate)

=============================================================================
